---- MODULE Spec2Model ----
(***************************************************************************)
(* Model of blinkytape/blinkytape.py: the BlinkyTape class, a host-side    *)
(* driver that encodes RGB pixels into 3-byte groups and writes them to a  *)
(* serial transport.                                                        *)
(*                                                                          *)
(* A BlinkyTape object is the record of its fields (ledCount, buffered,     *)
(* buf, and the state of self.serial).  Each method is an operator that     *)
(* takes the object together with the transport events of the running call *)
(* and returns them updated; each action of the specification is one call  *)
(* of a public method.  The serial transport (PySerial) and listPorts are   *)
(* collaborators outside the file; their behaviour is stated where used.    *)
(***************************************************************************)
EXTENDS Integers, Sequences, FiniteSets

(***************************************************************************)
(* Bounds of the model.                                                     *)
(***************************************************************************)
\* Most pixels the accumulator holds: calls that would grow it further are
\* not taken.
MaxPix == 11
\* Longest colour list handed to send_list.
MaxList == 2
\* Most pixels the accumulator holds when send_list is called.
MaxHeld == 6
\* Channel inputs of the encoder specification lie within EncSpread of the
\* two clamping edges 0 and 255.
EncSpread == 2

\* ledCount values a session is constructed with.
Caps == {0, 1, 9, 10}

\* Colour triples given to sendPixel, displayColor and send_list.
Pixels == { <<-1, 7, 255>>, <<300, 255, 254>> }

\* Port names; NoPort is Python's None.
NoPort == "None"
PortNames == {"ttyACM0", "ttyACM1"}

VARIABLES
    created,    \* "no": not constructed, "yes": __init__ returned, "failed": __init__ raised
    ledCount,   \* self.ledCount
    buffered,   \* self.buffered
    buf,        \* self.buf, a sequence of bytes
    serial,     \* self.serial: "none" (never created), "open", "closed"
    call,       \* the last method call: its name and arguments
    result,     \* how the last call ended: "ok" or the exception raised
    events,     \* the transport calls made by the last call, in order
    pre,        \* buf, sent and serial as they were when the last call began, and
                \* shown: the call before it was a show() that returned
    sent,       \* pixels accepted by sendPixel since the last commit was written
    given,      \* the ledCount and buffered arguments the constructor was called with
    encIn,      \* encoder specification: the input triple
    encOut      \* encoder specification: the encoded triple, <<>> before encoding

vars == <<created, ledCount, buffered, buf, serial, call, result,
          events, pre, sent, given, encIn, encOut>>

(***************************************************************************)
(* The serial transport.  A write, flush or flushInput on a port that is    *)
(* not open raises portNotOpenError; on an open port each of them may fail  *)
(* with a SerialException (an IOError), and a write that fails writes       *)
(* nothing.  x.nio counts the writes, flushes and input discards attempted  *)
(* by the running call and f is the number of the one that fails (0: none). *)
(* The result names which call raised.                                      *)
(***************************************************************************)
SerialWrite(x, data, f) ==
    IF x.serial # "open" THEN [x EXCEPT !.res = "portNotOpenError"]
    ELSE IF x.nio + 1 = f THEN [x EXCEPT !.res = "SerialException", !.nio = @ + 1]
    ELSE [x EXCEPT !.ev = Append(@, [op |-> "write", data |-> data]), !.nio = @ + 1]

SerialFlush(x, f) ==
    IF x.serial # "open" THEN [x EXCEPT !.res = "portNotOpenError"]
    ELSE IF x.nio + 1 = f
    THEN [x EXCEPT !.res = "SerialException: flush", !.nio = @ + 1]
    ELSE [x EXCEPT !.ev = Append(@, [op |-> "flush", data |-> <<>>]), !.nio = @ + 1]

SerialFlushInput(x, f) ==
    IF x.serial # "open" THEN [x EXCEPT !.res = "portNotOpenError"]
    ELSE IF x.nio + 1 = f
    THEN [x EXCEPT !.res = "SerialException: flushInput", !.nio = @ + 1]
    ELSE [x EXCEPT !.ev = Append(@, [op |-> "flushInput", data |-> <<>>]), !.nio = @ + 1]

\* the results of a call in which the open transport failed
TransportFailures ==
    {"SerialException", "SerialException: flush", "SerialException: flushInput"}

SerialSetBaudrate(x, rate) ==
    [x EXCEPT !.ev = Append(@, [op |-> "setBaudrate", data |-> <<rate>>])]

SerialClose(x) ==
    [x EXCEPT !.serial = "closed", !.ev = Append(@, [op |-> "close", data |-> <<>>])]

(***************************************************************************)
(* sendPixel's clamping: below 0 becomes 0, then 255 and above becomes 254. *)
(***************************************************************************)
\* variant: the upper test written > instead of >=
Clamp_gt(v) ==
    LET lo == IF v < 0 THEN 0 ELSE v
    IN  IF lo > 255 THEN 254 ELSE lo

Clamp(v) ==
    LET lo == IF v < 0 THEN 0 ELSE v
    IN  IF lo >= 255 THEN 254 ELSE lo

\* variant: the blue channel left out of data
Encode_rg(p) == << Clamp(p[1]), Clamp(p[2]) >>

\* data = bytearray((r, g, b)) of the clamped channels
Encode(p) == << Clamp(p[1]), Clamp(p[2]), Clamp(p[3]) >>

\* variant: the capacity test written <= instead of <
CapacityOK_le(data, cap) == Len(data) * 3 <= cap

\* The capacity test of sendPixel: len(data)*3 < self.ledCount
CapacityOK(data, cap) == Len(data) * 3 < cap

\* control = bytearray((0, 0, 255))
Control == <<0, 0, 255>>

\* variant: control + self.buf
ShowPayload_rev(b) == Control \o b

\* What show writes in buffered mode: self.buf + control
ShowPayload(b) == b \o Control

(***************************************************************************)
(* show(self)                                                               *)
(***************************************************************************)
\* variant: the accumulator is not reset after the write
show_keep(x, f) ==
    LET w == IF x.buffered
             THEN SerialWrite(x, ShowPayload(x.buf), f)
             ELSE SerialWrite(x, Control, f)
        fl == IF w.res = "ok" THEN SerialFlush(w, f) ELSE w
    IN  IF fl.res = "ok" THEN SerialFlushInput(fl, f) ELSE fl

\* variant: input is discarded before the output is flushed
show_swapped(x, f) ==
    LET w == IF x.buffered
             THEN LET w1 == SerialWrite(x, ShowPayload(x.buf), f)
                  IN  IF w1.res = "ok" THEN [w1 EXCEPT !.buf = <<>>] ELSE w1
             ELSE SerialWrite(x, Control, f)
        fl == IF w.res = "ok" THEN SerialFlushInput(w, f) ELSE w
    IN  IF fl.res = "ok" THEN SerialFlush(fl, f) ELSE fl

show(x, f) ==
    LET w == IF x.buffered
             THEN LET w1 == SerialWrite(x, ShowPayload(x.buf), f)
                  IN  IF w1.res = "ok" THEN [w1 EXCEPT !.buf = <<>>] ELSE w1
             ELSE SerialWrite(x, Control, f)
        fl == IF w.res = "ok" THEN SerialFlush(w, f) ELSE w
    IN  IF fl.res = "ok" THEN SerialFlushInput(fl, f) ELSE fl

(***************************************************************************)
(* sendPixel(self, r, g, b)                                                  *)
(***************************************************************************)
\* variant: the immediate write is not followed by a flush
sendPixel_noflush(x, p, f) ==
    LET data == Encode(p)
    IN  IF CapacityOK(data, x.ledCount)
        THEN IF x.buffered
             THEN [x EXCEPT !.buf = @ \o data]
             ELSE SerialWrite(x, data, f)
        ELSE [x EXCEPT !.res = "RuntimeError"]

\* variant: the pixel is stored or written before the capacity test
sendPixel_early(x, p, f) ==
    LET data == Encode(p)
        y == IF x.buffered
             THEN [x EXCEPT !.buf = @ \o data]
             ELSE LET w == SerialWrite(x, data, f)
                  IN  IF w.res = "ok" THEN SerialFlush(w, f) ELSE w
    IN  IF CapacityOK(data, x.ledCount) \/ y.res # "ok" THEN y
        ELSE [y EXCEPT !.res = "RuntimeError"]

sendPixel(x, p, f) ==
    LET data == Encode(p)
    IN  IF CapacityOK(data, x.ledCount)
        THEN IF x.buffered
             THEN [x EXCEPT !.buf = @ \o data]
             ELSE LET w == SerialWrite(x, data, f)
                  IN  IF w.res = "ok" THEN SerialFlush(w, f) ELSE w
        ELSE [x EXCEPT !.res = "RuntimeError"]

(***************************************************************************)
(* send_list(self, colors): only the upper bound is clamped; bytearray      *)
(* raises ValueError for a value outside range(256).                        *)
(***************************************************************************)
\* variant: the test written > instead of >=
ListClamp_gt(v) == IF v > 255 THEN 254 ELSE v

ListClamp(v) == IF v >= 255 THEN 254 ELSE v

ByteOK(v) == v \in 0..255

ListEncode(p) == << ListClamp(p[1]), ListClamp(p[2]), ListClamp(p[3]) >>

RECURSIVE ListData(_)
ListData(colors) ==
    IF colors = <<>> THEN <<>>
    ELSE ListEncode(Head(colors)) \o ListData(Tail(colors))

ListBytesOK(colors) ==
    \A i \in 1..Len(colors) : \A k \in 1..3 : ByteOK(ListClamp(colors[i][k]))

\* variant: in buffered mode the pixels are put in the accumulator, not written
send_list_buffered(x, colors, f) ==
    IF ~ListBytesOK(colors) THEN [x EXCEPT !.res = "ValueError"]
    ELSE IF x.buffered THEN show([x EXCEPT !.buf = @ \o ListData(colors)], f)
    ELSE LET w == SerialWrite(x, ListData(colors), f)
         IN  IF w.res = "ok" THEN show(w, f) ELSE w

send_list(x, colors, f) ==
    IF ~ListBytesOK(colors) THEN [x EXCEPT !.res = "ValueError"]
    ELSE LET w == SerialWrite(x, ListData(colors), f)
         IN  IF w.res = "ok" THEN show(w, f) ELSE w

(***************************************************************************)
(* displayColor(self, r, g, b): for i in range(0, ledCount): sendPixel;     *)
(* then show.  An exception leaves the loop.                                *)
(***************************************************************************)
RECURSIVE displayLoop(_, _, _, _)
displayLoop(x, p, f, i) ==
    IF i >= x.ledCount \/ x.res # "ok" THEN x
    ELSE displayLoop(sendPixel(x, p, f), p, f, i + 1)

displayColor(x, p, f) ==
    LET l == displayLoop(x, p, f, 0)
    IN  IF l.res = "ok" THEN show(l, f) ELSE l

(***************************************************************************)
(* close(self) and resetToBootloader(self).  PySerial accepts both calls on *)
(* a port that is already closed.                                           *)
(***************************************************************************)
close(x) == SerialClose(x)

BootloaderBaud == 1200

\* variant: the port is closed before the baud rate is set
resetToBootloader_rev(x) == SerialSetBaudrate(close(x), BootloaderBaud)

resetToBootloader(x) == close(SerialSetBaudrate(x, BootloaderBaud))

(***************************************************************************)
(* __init__(self, port, ledCount, buffered).  listPorts() is called once    *)
(* for the emptiness test (ports1) and once more for the port (ports2).     *)
(* openOk tells whether serial.Serial(port, 115200) succeeds.  self.port is *)
(* assigned here and read by no method: the port is kept in the "open"      *)
(* event of the transport.                                                  *)
(***************************************************************************)
ProtocolBaud == 115200

\* variant: the emptiness test never true
NotFound_never(ports) == Len(ports) < 0

NotFound(ports) == Len(ports) = 0

\* the object before __init__ has assigned anything
Blank == [ledCount |-> 0, buffered |-> TRUE, buf |-> <<>>,
          serial |-> "none", ev |-> <<>>, res |-> "ok", nio |-> 0]

\* variant: the constructor does not call show()
init_noshow(portArg, cap, bufd, ports1, ports2, openOk, f) ==
    IF portArg = NoPort /\ NotFound(ports1)
    THEN [Blank EXCEPT !.res = "IOError: BlinkyTape not found!"]
    ELSE IF portArg = NoPort /\ Len(ports2) = 0
    THEN [Blank EXCEPT !.res = "IndexError"]
    ELSE LET p == IF portArg = NoPort THEN ports2[1] ELSE portArg
             s == [Blank EXCEPT !.ledCount = cap, !.buffered = bufd]
         IN  IF ~openOk THEN [s EXCEPT !.res = "SerialException"]
             ELSE [s EXCEPT !.serial = "open",
                            !.ev = << [op |-> "open", data |-> <<p, ProtocolBaud>>] >>]

init(portArg, cap, bufd, ports1, ports2, openOk, f) ==
    IF portArg = NoPort /\ NotFound(ports1)
    THEN [Blank EXCEPT !.res = "IOError: BlinkyTape not found!"]
    ELSE IF portArg = NoPort /\ Len(ports2) = 0
    THEN [Blank EXCEPT !.res = "IndexError"]
    ELSE LET p == IF portArg = NoPort THEN ports2[1] ELSE portArg
             s == [Blank EXCEPT !.ledCount = cap, !.buffered = bufd]
         IN  IF ~openOk THEN [s EXCEPT !.res = "SerialException"]
             ELSE show([s EXCEPT !.serial = "open",
                                 !.ev = << [op |-> "open", data |-> <<p, ProtocolBaud>>] >>],
                       f)

(***************************************************************************)
(* The calls.  Self is the object as the variables hold it, with an empty   *)
(* event list for the call about to run; Returns stores what a call leaves. *)
(***************************************************************************)
Self == [ledCount |-> ledCount, buffered |-> buffered, buf |-> buf,
         serial |-> serial, ev |-> <<>>, res |-> "ok", nio |-> 0]

Returns(x, c) ==
    /\ ledCount' = x.ledCount
    /\ buffered' = x.buffered
    /\ buf' = x.buf
    /\ serial' = x.serial
    /\ events' = x.ev
    /\ result' = x.res
    /\ call' = c
    /\ pre' = [buf |-> buf, sent |-> sent, serial |-> serial,
               shown |-> (call.op = "show" /\ result = "ok")]
    /\ UNCHANGED <<encIn, encOut>>

NoCall == [op |-> "none", pixel |-> <<>>, colors |-> <<>>, port |-> NoPort, ports |-> <<>>]

\* what listPorts() may return: the candidate ports in some order, none twice
PortLists ==
    {<<>>} \cup {<<a>> : a \in PortNames}
           \cup {<<a, b>> : <<a, b>> \in {q \in PortNames \X PortNames : q[1] # q[2]}}

ColorLists == UNION { [1..n -> Pixels] : n \in 0..MaxList }

\* The transport calls a call may be told to fail at: none (0) or any of the
\* writes, flushes and input discards it attempts; x is the call run with no
\* failure.
FailPoints(x) == 0..x.nio

\* n copies of the pixel p
Rep(n, p) == [i \in 1..n |-> p]

\* the call x has written a commit: a write that ends in the control triplet
Committed(x) ==
    \E i \in 1..Len(x.ev) :
        /\ x.ev[i].op = "write"
        /\ Len(x.ev[i].data) >= 3
        /\ SubSeq(x.ev[i].data, Len(x.ev[i].data) - 2, Len(x.ev[i].data)) = <<0, 0, 255>>

Init ==
    /\ created = "no"
    /\ ledCount = 0
    /\ buffered = TRUE
    /\ buf = <<>>
    /\ serial = "none"
    /\ call = NoCall
    /\ result = "ok"
    /\ events = <<>>
    /\ pre = [buf |-> <<>>, sent |-> <<>>, serial |-> "none", shown |-> FALSE]
    /\ sent = <<>>
    /\ given = [ledCount |-> 0, buffered |-> TRUE]
    /\ encIn = <<>>
    /\ encOut = <<>>

\* BlinkyTape(port, ledCount, buffered)
Open ==
    /\ created = "no"
    /\ \E portArg \in {NoPort} \cup PortNames, cap \in Caps, bufd \in BOOLEAN,
          ports1 \in PortLists, ports2 \in PortLists, openOk \in BOOLEAN :
        /\ portArg # NoPort => ports1 = <<>> /\ ports2 = <<>>
        /\ \E f \in FailPoints(init(portArg, cap, bufd, ports1, ports2, openOk, 0)) :
            LET x == init(portArg, cap, bufd, ports1, ports2, openOk, f)
            IN  /\ Returns(x, [NoCall EXCEPT !.op = "open", !.port = portArg,
                                             !.ports = ports1])
                /\ created' = IF x.res = "ok" THEN "yes" ELSE "failed"
                /\ sent' = <<>>
                /\ given' = [ledCount |-> cap, buffered |-> bufd]

\* bt.sendPixel(r, g, b)
CallSendPixel ==
    /\ created = "yes"
    /\ buffered => Len(buf) \div 3 < MaxPix
    /\ \E p \in Pixels : \E f \in FailPoints(sendPixel(Self, p, 0)) :
        LET x == sendPixel(Self, p, f)
        IN  /\ Returns(x, [NoCall EXCEPT !.op = "sendPixel", !.pixel = p])
            /\ sent' = IF buffered /\ x.res = "ok" THEN Append(sent, p) ELSE sent
    /\ UNCHANGED <<created, given>>

\* bt.show()
CallShow ==
    /\ created = "yes"
    /\ \E f \in FailPoints(show(Self, 0)) :
        LET x == show(Self, f)
        IN  /\ Returns(x, [NoCall EXCEPT !.op = "show"])
            /\ sent' = IF Committed(x) THEN <<>> ELSE sent
    /\ UNCHANGED <<created, given>>

\* bt.send_list(colors)
CallSendList ==
    /\ created = "yes"
    /\ Len(buf) \div 3 <= MaxHeld
    /\ \E colors \in ColorLists : \E f \in FailPoints(send_list(Self, colors, 0)) :
        LET x == send_list(Self, colors, f)
        IN  /\ Returns(x, [NoCall EXCEPT !.op = "send_list", !.colors = colors])
            /\ sent' = IF Committed(x) THEN <<>> ELSE sent
    /\ UNCHANGED <<created, given>>

\* bt.displayColor(r, g, b)
CallDisplayColor ==
    /\ created = "yes"
    /\ buffered => Len(buf) \div 3 + ledCount <= MaxPix
    /\ \E p \in Pixels : \E f \in FailPoints(displayColor(Self, p, 0)) :
        LET x == displayColor(Self, p, f)
        IN  /\ Returns(x, [NoCall EXCEPT !.op = "displayColor", !.pixel = p])
            /\ sent' = IF ~buffered \/ x.res = "RuntimeError" THEN sent
                       ELSE IF Committed(x) THEN <<>>
                       ELSE sent \o Rep(ledCount, p)
    /\ UNCHANGED <<created, given>>

\* bt.close()
CallClose ==
    /\ created = "yes"
    /\ Returns(close(Self), [NoCall EXCEPT !.op = "close"])
    /\ UNCHANGED <<created, sent, given>>

\* bt.resetToBootloader()
CallResetToBootloader ==
    /\ created = "yes"
    /\ Returns(resetToBootloader(Self), [NoCall EXCEPT !.op = "resetToBootloader"])
    /\ UNCHANGED <<created, sent, given>>

Next ==
    \/ Open
    \/ CallSendPixel
    \/ CallShow
    \/ CallSendList
    \/ CallDisplayColor
    \/ CallClose
    \/ CallResetToBootloader

Spec == Init /\ [][Next]_vars

\* A caller that only constructs the object, sends pixels and commits.
NextFill ==
    \/ Open
    \/ CallSendPixel
    \/ CallShow

SpecFill == Init /\ [][NextFill]_vars

(***************************************************************************)
(* The encoder alone: sendPixel's encoding applied to triples of channel    *)
(* values around the clamping edges and in mid-range.                       *)
(***************************************************************************)
ChanVals == (-EncSpread..EncSpread) \cup {128}
                \cup ((255 - EncSpread)..(255 + EncSpread))

InitEncode ==
    /\ created = "no"
    /\ ledCount = 0
    /\ buffered = TRUE
    /\ buf = <<>>
    /\ serial = "none"
    /\ call = NoCall
    /\ result = "ok"
    /\ events = <<>>
    /\ pre = [buf |-> <<>>, sent |-> <<>>, serial |-> "none", shown |-> FALSE]
    /\ sent = <<>>
    /\ given = [ledCount |-> 0, buffered |-> TRUE]
    /\ encIn \in ChanVals \X ChanVals \X ChanVals
    /\ encOut = <<>>

EncodeStep ==
    /\ encOut = <<>>
    /\ encOut' = Encode(encIn)
    /\ UNCHANGED <<created, ledCount, buffered, buf, serial, call, result,
                   events, pre, sent, given, encIn>>

NextEncode == EncodeStep

SpecEncode == InitEncode /\ [][NextEncode]_vars

(***************************************************************************)
(* Helpers for the properties.                                              *)
(***************************************************************************)
\* the bytes of the write events of ev, concatenated in order
RECURSIVE WireOf(_)
WireOf(ev) ==
    IF ev = <<>> THEN <<>>
    ELSE (IF Head(ev).op = "write" THEN Head(ev).data ELSE <<>>) \o WireOf(Tail(ev))

\* the encodings of a sequence of pixels, concatenated
RECURSIVE EncodeAll(_)
EncodeAll(ps) ==
    IF ps = <<>> THEN <<>> ELSE Encode(Head(ps)) \o EncodeAll(Tail(ps))

\* w cut into 3-byte groups, the control triplets removed
RECURSIVE StripControl(_)
StripControl(w) ==
    IF Len(w) < 3 THEN w
    ELSE (IF SubSeq(w, 1, 3) = <<0, 0, 255>> THEN <<>> ELSE SubSeq(w, 1, 3))
         \o StripControl(SubSeq(w, 4, Len(w)))

\* w is whole 3-byte groups, each pixel data within 0..254 or (0,0,255)
ValidStream(w) ==
    /\ Len(w) % 3 = 0
    /\ \A g \in 0..(Len(w) \div 3 - 1) :
        \/ \A k \in 1..3 : w[3 * g + k] \in 0..254
        \/ SubSeq(w, 3 * g + 1, 3 * g + 3) = <<0, 0, 255>>

PixelCalls == {"sendPixel", "send_list", "show", "displayColor"}

\* the pixel bytes the last call supplied itself
Supplied ==
    CASE call.op = "sendPixel"    -> Encode(call.pixel)
      [] call.op = "displayColor" -> EncodeAll(Rep(ledCount, call.pixel))
      [] call.op = "send_list"    -> ListData(call.colors)
      [] OTHER                    -> <<>>

(***************************************************************************)
(* Properties.                                                              *)
(***************************************************************************)

\* C1: a successful show() on a buffered session makes exactly one write,
\* whose bytes are the encodings of the pixels sendPixel accepted since the
\* last commit, in the order they were sent, followed by (0,0,255); it then
\* flushes and discards input, and the accumulator is empty afterwards.
C1_BufferedShowWritesAll ==
    (call.op = "show" /\ buffered /\ result = "ok") =>
        /\ events = << [op |-> "write", data |-> EncodeAll(pre.sent) \o <<0, 0, 255>>],
                       [op |-> "flush", data |-> <<>>],
                       [op |-> "flushInput", data |-> <<>>] >>
        /\ buf = <<>>

\* C1 witness: a successful buffered show() after two different pixels.
C1_Witness ==
    /\ call.op = "show" /\ buffered /\ result = "ok"
    /\ Len(pre.sent) >= 2
    /\ pre.sent[1] # pre.sent[2]

\* C2: the accumulator never holds more than ledCount pixels, and a sendPixel
\* call made when ledCount pixels are already accumulated raises and adds
\* nothing.
C2_CapacityEnforced ==
    /\ Len(buf) \div 3 <= ledCount
    /\ (call.op = "sendPixel" /\ Len(pre.buf) \div 3 >= ledCount) =>
            (result = "RuntimeError" /\ buf = pre.buf)

\* C3: every encoded channel is within 0..254; an input below 0 gives 0, an
\* input of 255 or more gives 254, an input within 0..254 is unchanged.
C3_EncodeClamps ==
    encOut # <<>> =>
        \A k \in 1..3 :
            /\ encOut[k] \in 0..254
            /\ encIn[k] < 0 => encOut[k] = 0
            /\ encIn[k] >= 255 => encOut[k] = 254
            /\ encIn[k] \in 0..254 => encOut[k] = encIn[k]

\* C3 witness: a triple with a negative, an over-range and an in-range channel
\* has been encoded.
C3_Witness ==
    /\ encOut # <<>>
    /\ encIn[1] < 0 /\ encIn[2] >= 255 /\ encIn[3] \in 1..254

\* C4: the bytes a call writes to the transport are whole 3-byte groups, each
\* either pixel data with all bytes within 0..254 or the control triplet
\* (0,0,255).
C4_WireWellFormed ==
    /\ ValidStream(WireOf(events))
    /\ \A i \in 1..Len(events) : ValidStream(events[i].data) \/ events[i].op # "write"

\* C4 witness: send_list has written a pixel with channels of 255 and above,
\* and the commit after it.
C4_Witness ==
    /\ call.op = "send_list" /\ result = "ok"
    /\ \E i \in 1..Len(call.colors) : call.colors[i][1] > 255 /\ call.colors[i][2] = 255
    /\ Len(WireOf(events)) >= 6

\* C5: in immediate mode a sendPixel call that returns has made exactly one
\* write of the pixel's 3 bytes followed by one flush, and the accumulator of
\* an immediate-mode session is always empty.
C5_ImmediateSendPixel ==
    /\ (created = "yes" /\ ~buffered) => buf = <<>>
    /\ (call.op = "sendPixel" /\ ~buffered /\ result = "ok") =>
            /\ events = << [op |-> "write", data |-> Encode(call.pixel)],
                           [op |-> "flush", data |-> <<>>] >>
            /\ Len(events[1].data) = 3

\* C5 witness: an immediate-mode sendPixel call has returned.
C5_Witness ==
    created = "yes" /\ call.op = "sendPixel" /\ ~buffered /\ result = "ok"

\* C6: displayColor on an open session whose transport does not fail returns
\* normally, and the bytes on the wire are whatever was accumulated before,
\* then ledCount copies of the encoded colour, then (0,0,255).
C6_DisplayColorFills ==
    (call.op = "displayColor" /\ pre.serial = "open" /\ result \notin TransportFailures) =>
        /\ result = "ok"
        /\ WireOf(events) =
               pre.buf \o EncodeAll(Rep(ledCount, call.pixel)) \o <<0, 0, 255>>

\* C7: with ledCount >= 9 displayColor, and so each sendPixel call it makes,
\* never raises the capacity error.
C7_NeverTripsFrom9 ==
    (call.op = "displayColor" /\ ledCount >= 9) => result # "RuntimeError"

\* C8: a sendPixel, send_list, show or displayColor call made on a closed
\* session fails (whatever exception it raises is taken for the
\* closed-session error), writes nothing and leaves the accumulator as it was.
C8_ClosedSessionRejects ==
    (call.op \in PixelCalls /\ pre.serial = "closed") =>
        /\ result # "ok"
        /\ buf = pre.buf
        /\ events = <<>>

\* C9: pixels reach the wire in the order they were supplied: the pixels
\* accumulated before a call followed by the pixels the call supplies are the
\* pixels the call puts on the wire followed by those still accumulated.
C9_WireKeepsSupplyOrder ==
    (call.op \in PixelCalls /\ result = "ok") =>
        pre.buf \o Supplied = StripControl(WireOf(events)) \o buf

\* C10: a construction without a port, with listPorts() returning nothing,
\* raises the not-found error, creates no transport and writes nothing.
C10_NotFoundOpensNothing ==
    (call.op = "open" /\ call.port = NoPort /\ call.ports = <<>>) =>
        /\ result = "IOError: BlinkyTape not found!"
        /\ created = "failed"
        /\ serial = "none"
        /\ events = <<>>

\* C10 witness: such a construction has been attempted.
C10_Witness ==
    call.op = "open" /\ call.port = NoPort /\ call.ports = <<>> /\ created = "failed"

\* the transport calls of a show() that has nothing but the control triplet
\* to write
ControlOnly ==
    << [op |-> "write", data |-> <<0, 0, 255>>],
       [op |-> "flush", data |-> <<>>],
       [op |-> "flushInput", data |-> <<>>] >>

\* C11: a show() that returns on a buffered session whose accumulator is
\* empty, or that directly follows another show() that returned, makes one
\* write of exactly (0,0,255) and leaves the accumulator empty.
C11_ShowTwice ==
    (call.op = "show" /\ buffered /\ result = "ok" /\ (pre.buf = <<>> \/ pre.shown)) =>
        /\ events = ControlOnly
        /\ buf = <<>>

\* C11 witness: a second show() in a row has returned on a buffered session.
C11_Witness ==
    /\ call.op = "show" /\ buffered /\ result = "ok"
    /\ pre.shown /\ pre.buf = <<>>

\* C12: sendPixel raises the capacity error exactly when 9 >= ledCount,
\* whatever the accumulator holds and whatever was sent before.
C12_RejectsByCapacityOnly ==
    call.op = "sendPixel" => (result = "RuntimeError" <=> 9 >= ledCount)

\* C12 witness: sendPixel rejected a pixel on a session of capacity 9 with
\* nothing accumulated.
C12_Witness ==
    /\ call.op = "sendPixel" /\ result = "RuntimeError"
    /\ ledCount = 9 /\ pre.buf = <<>>

\* C13: a sendPixel call that raises the capacity error leaves the
\* accumulator as it was and makes no transport call (no write, no flush).
C13_RejectionChangesNothing ==
    (call.op = "sendPixel" /\ result = "RuntimeError") =>
        /\ buf = pre.buf
        /\ events = <<>>

\* C13 witness: sendPixel raised the capacity error on an open session.
C13_Witness ==
    call.op = "sendPixel" /\ result = "RuntimeError" /\ serial = "open"

\* C14 as stated: a send_list call that returns has written its encoded
\* pixels in one write and then committed with the control triplet alone, and
\* the accumulator is what it was before the call.
C14_SendListLeavesAccumulator ==
    (call.op = "send_list" /\ result = "ok") =>
        /\ events = << [op |-> "write", data |-> ListData(call.colors)] >> \o ControlOnly
        /\ buf = pre.buf

\* C14 amended: a send_list call that returns has written its encoded pixels,
\* concatenated in the order of the list, in one write, in either mode and
\* without putting them in the accumulator, and then committed: the commit's
\* write is the accumulator as it was before the call followed by (0,0,255),
\* and the accumulator is empty afterwards.
C14_SendListWritesThenCommits ==
    (call.op = "send_list" /\ result = "ok") =>
        /\ events = << [op |-> "write", data |-> ListData(call.colors)],
                       [op |-> "write", data |-> pre.buf \o <<0, 0, 255>>],
                       [op |-> "flush", data |-> <<>>],
                       [op |-> "flushInput", data |-> <<>>] >>
        /\ Len(events[1].data) = 3 * Len(call.colors)
        /\ \A i \in 1..Len(events[1].data) : events[1].data[i] \in 0..254
        /\ buf = <<>>

\* C14 witness: send_list returned for a list of two colours on a buffered
\* session that held pixels.
C14_Witness ==
    /\ call.op = "send_list" /\ result = "ok" /\ buffered
    /\ pre.buf # <<>> /\ Len(call.colors) >= 2

\* C15: a construction that returns has opened the transport at 115200 and
\* then committed: its only write is (0,0,255), flushed, and the accumulator
\* is empty, in both modes.
C15_OpenCommits ==
    (call.op = "open" /\ result = "ok") =>
        /\ created = "yes"
        /\ Len(events) = 4
        /\ events[1].op = "open" /\ events[1].data[2] = 115200
        /\ SubSeq(events, 2, 4) = ControlOnly
        /\ buf = <<>>

\* C15 witness: an immediate-mode session has been constructed.
C15_Witness ==
    call.op = "open" /\ created = "yes" /\ ~buffered

\* C16: a call in which a transport write fails leaves the accumulator as it
\* was before the call.
C16_FailedWriteKeepsAccumulator ==
    result = "SerialException" => buf = pre.buf

\* the order of the transport calls of show()
ShowOrder == << "write", "flush", "flushInput" >>

\* C17: the transport calls of a show() call are, in this order, one write
\* ending in (0,0,255), one flush and one discard of input; a show() that
\* raises has made a prefix of them, so input is never discarded before the
\* control triplet is written and flushed.
C17_ShowOrder ==
    call.op = "show" =>
        /\ Len(events) <= 3
        /\ \A i \in 1..Len(events) : events[i].op = ShowOrder[i]
        /\ events # <<>> =>
               LET d == events[1].data
               IN  Len(d) >= 3 /\ SubSeq(d, Len(d) - 2, Len(d)) = <<0, 0, 255>>
        /\ result = "ok" => Len(events) = 3

\* C17 witness: show() returned on an immediate-mode session.
C17_Witness ==
    call.op = "show" /\ result = "ok" /\ ~buffered /\ Len(events) = 3

\* C18: a construction without a port uses one result of listPorts(): it
\* raises not-found when that result is empty, and otherwise opens the
\* transport on the first port of that result.
C18_DiscoveryOnce ==
    (call.op = "open" /\ call.port = NoPort) =>
        /\ call.ports = <<>> => result = "IOError: BlinkyTape not found!"
        /\ call.ports # <<>> =>
               /\ result \in {"ok"} \cup TransportFailures
               /\ events # <<>> => (events[1].op = "open"
                                    /\ events[1].data[1] = call.ports[1])

\* C19: resetToBootloader sets the baud rate to 1200 and then closes the
\* transport, makes no other transport call (no write), returns, and leaves
\* the transport closed and the accumulator as it was.
C19_ResetToBootloader ==
    call.op = "resetToBootloader" =>
        /\ events = << [op |-> "setBaudrate", data |-> <<1200>>],
                       [op |-> "close", data |-> <<>>] >>
        /\ result = "ok"
        /\ serial = "closed"
        /\ buf = pre.buf

\* C19 witness: resetToBootloader was called on an open session.
C19_Witness ==
    call.op = "resetToBootloader" /\ pre.serial = "open" /\ serial = "closed"

\* C20: the accumulator holds whole 3-byte pixels, and on a constructed
\* object ledCount and buffered are the values given to the constructor.
C20_WholePixelsFixedSettings ==
    /\ Len(buf) % 3 = 0
    /\ created = "yes" => (ledCount = given.ledCount /\ buffered = given.buffered)

\* C20 witness: calls have been made on a buffered session constructed with
\* ledCount 10, and the accumulator holds pixels.
C20_Witness ==
    /\ created = "yes" /\ given = [ledCount |-> 10, buffered |-> TRUE]
    /\ call.op \in {"sendPixel", "displayColor"}
    /\ Len(buf) >= 6

====
